---- MODULE Spec2Model ----
(***************************************************************************)
(* playsms_hilink_driver: the task serializer of lib_usb_modem.py (callers, *)
(* task queue, background worker, result queue) and the polling driver of   *)
(* playsms_hilink_driver.py (inbox poller thread, HTTP handler threads),    *)
(* both talking to one Huawei hilink modem.                                 *)
(*                                                                          *)
(* The modem is the environment: it answers a delete with success or with   *)
(* an error response, it stores a sent message in the outbox after an       *)
(* arbitrary delay (or never), and every HTTP request can raise.            *)
(***************************************************************************)
EXTENDS Integers, Sequences, FiniteSets, TLC

\* ----- bounds of the model ------------------------------------------------
MaxTasks == 2        \* driver calls made by all callers of the library
MaxReceived == 1     \* SMS received by the modem during a run of the library
MaxInbox == 2        \* SMS received by the modem during a run of the driver
MaxSends == 2        \* send requests reaching the HTTP gateway
MaxIndex == 2        \* indexes a caller passes to delete_sms

\* ----- program constants --------------------------------------------------
Polls == 5           \* for i in range(0,5)
ReadCount == 10      \* <ReadCount>10</ReadCount>

Callers == {"c1", "c2"}
Handlers == {"h1", "h2"}

NoTask == [id |-> 0, caller |-> "-", action |-> "-", index |-> 0,
           numbers |-> <<>>, text |-> <<>>]

NoRes == [task |-> 0, has_messages |-> FALSE, messages |-> <<>>,
          has_index |-> FALSE, index |-> 0]

NoRet == [task |-> 0, from |-> 0, kind |-> "-", messages |-> <<>>, index |-> 0]

NoArg == [box |-> 0, index |-> 0, numbers |-> <<>>, text |-> <<>>]
NoSession == [cookie |-> <<>>, token |-> <<>>]
NoReq == [task |-> 0, kind |-> "-", arg |-> 0]

VARIABLES
    \* lib_usb_modem.py: callers and queues
    task_queue,      \* self.task_queue
    result_queue,    \* self.result_queue (one queue shared by all callers)
    cpc,             \* per caller: "idle" or "wait" (blocked in result_queue.get)
    ccall,           \* per caller: the task of its outstanding / last call
    cret,            \* per caller: what its last call returned
    ntasks,          \* number of tasks put so far (task ids, in put order)
    \* lib_usb_modem.py: background worker
    wpc,             \* position of the worker (source line of the statement)
    wstage,          \* inside a b_* call: "session" (before GET) or "post"
    task,            \* local variable task
    res,             \* local variable res
    messages,        \* local variable messages
    i,               \* poll loop counter
    k,               \* position in `for message in messages`
    \* the modem
    inbox,           \* BoxType 1, newest first
    outbox,          \* BoxType 2, newest first
    pending,         \* sent messages accepted but not yet stored in the outbox
    nextIndex,       \* next Index the modem assigns
    narrived,        \* number of SMS received so far
    \* history of the library run
    req,             \* the last modem request of the worker
    open,            \* tasks dequeued whose result has not been put
    stopSeen,        \* the worker has dequeued a stop task
    dels,            \* deletes issued after the send request of the current task
    own,             \* the Index the modem gave to the send of the current task
    clean,           \* no sent message was waiting to be stored in the outbox
                     \* at the last listing of the drain loop
    \* playsms_hilink_driver.py: inbox poller thread and HTTP handler threads
    ppc, pstage, pmessages, pk, plog,
    pfwd,            \* how the forward call of the current message ended
    forwarded,       \* the Index of every message forwarded so far
    hpc, hstage, nsends,
    \* one protocol operation at a time: b_get_sms_list, b_delete_sms, b_send_sms
    \* of lib_usb_modem.py, get_sms_list, delete_sms, send_sms of the driver
    oimpl,           \* "lib" or "driver": whose method runs
    okind,           \* "list", "delete" or "send"
    oarg,            \* the arguments of the call
    opc,             \* "idle", "session" (before the GET) or "post"
    osession,        \* local variables session, token
    olog,            \* the HTTP requests made so far
    nops,            \* number of operations called so far
    nissued,         \* number of session answers the modem has given
    oresp,           \* the messages of the last sms-list answer
    oresult,         \* what the last listing returned
    obody,           \* post_data of the last send
    oout             \* how the last operation ended: "ok" or "raised"

libvars == <<task_queue, result_queue, cpc, ccall, cret, ntasks,
             wpc, wstage, task, res, messages, i, k,
             req, open, stopSeen, dels, own, clean>>
modemvars == <<inbox, outbox, pending, nextIndex, narrived>>
drvvars == <<ppc, pstage, pmessages, pk, plog, pfwd, forwarded, hpc, hstage, nsends>>
protovars == <<oimpl, okind, oarg, opc, osession, olog, nops, nissued,
               oresp, oresult, obody, oout>>
vars == <<libvars, modemvars, drvvars, protovars>>

\* ----- the modem's side of the protocol -----------------------------------

\* /api/sms/sms-list with PageIndex 1 and ReadCount 10: the first page of a box
ModemList(box) ==
    SubSeq(box, 1, IF Len(box) < ReadCount THEN Len(box) ELSE ReadCount)

\* /api/sms/delete-sms carried out: the message with this Index is gone
ModemDelete(box, index) == SelectSeq(box, LAMBDA m : m.Index # index)

\* Texts are sequences of code points. In a parsed response the empty sequence
\* is an empty element, which xmltodict gives as None.
Hello == <<104, 101, 108, 108, 111>>
Hi == <<104, 105>>

\* a message staged by /api/sms/send-sms
StagedMessage(index, numbers, text) ==
    [Index |-> index, Phone |-> numbers[1], SmsType |-> "1", Content |-> text]

\* ----- lib_usb_modem.py: helpers ------------------------------------------

NoMessage == [Index |-> 0, Phone |-> "", SmsType |-> "", Content |-> <<>>]

\* xmltodict.parse of the answer to sms-list, data['response']: no Messages
\* element at all (has_key FALSE), an empty one (None), one holding a single
\* Message (a dict) or one holding several (a list)
xmltodict(msgs) ==
    [has_key |-> TRUE,
     is_none |-> Len(msgs) = 0,
     is_list |-> Len(msgs) > 1,
     one |-> IF Len(msgs) = 1 THEN msgs[1] ELSE NoMessage,
     many |-> IF Len(msgs) > 1 THEN msgs ELSE <<>>]

\* lines 226-229: a single message is made a list of one
MessageList(data) == IF data.is_list THEN data.many ELSE <<data.one>>

\* str.encode('latin1') fails on a character above U+00FF
Latin1Encodable(text) == \A n \in 1..Len(text) : text[n] < 256

\* bytes.decode('utf8', 'ignore') on bytes below 0xE0: an ASCII byte is itself,
\* a lead byte C2..DF with a continuation byte is one character, any other byte
\* is dropped
RECURSIVE Utf8Decode(_)
Utf8Decode(bytes) ==
    IF bytes = <<>> THEN <<>>
    ELSE IF bytes[1] < 128 THEN <<bytes[1]>> \o Utf8Decode(Tail(bytes))
    ELSE IF /\ bytes[1] >= 194 /\ bytes[1] <= 223 /\ Len(bytes) > 1
            /\ bytes[2] >= 128 /\ bytes[2] <= 191
         THEN <<(bytes[1] - 192) * 64 + (bytes[2] - 128)>>
                 \o Utf8Decode(Tail(Tail(bytes)))
    ELSE Utf8Decode(Tail(bytes))

\* str.encode() of characters below U+0800
RECURSIVE Utf8Encode(_)
Utf8Encode(text) ==
    IF text = <<>> THEN <<>>
    ELSE IF text[1] < 128 THEN <<text[1]>> \o Utf8Encode(Tail(text))
    ELSE <<192 + (text[1] \div 64), 128 + (text[1] % 64)>>
             \o Utf8Encode(Tail(text))

\* lines 233-238: the four attributes, None content made one space, then
\* Content.encode('latin1').decode('utf8', 'ignore')
Space == <<32>>
b_message(m) ==
    [Index |-> m.Index, Phone |-> m.Phone, SmsType |-> m.SmsType,
     Content |-> Utf8Decode(IF m.Content = <<>> THEN Space ELSE m.Content)]

\* lines 219-242, the parsing of b_get_sms_list: the plain SMS of the response,
\* in the order of the response
b_parse_sms_list(data) ==
    IF data.has_key /\ ~data.is_none
    THEN LET plain == SelectSeq(MessageList(data), LAMBDA m : m.SmsType = "1")
         IN  [n \in 1..Len(plain) |-> b_message(plain[n])]
    ELSE <<>>

\* line 238 raises UnicodeEncodeError for a plain SMS that is not latin1
b_parse_raises(data) ==
    /\ data.has_key /\ ~data.is_none
    /\ \E n \in 1..Len(MessageList(data)) :
          /\ MessageList(data)[n].SmsType = "1"
          /\ ~Latin1Encodable(MessageList(data)[n].Content)

\* b_get_sms_list on a box of the modem
b_get_sms_list(box) == b_parse_sms_list(xmltodict(ModemList(box)))

\* multiprocessing.Queue.get on the task queue: the oldest item
Queue_get_newest(q) == [item |-> q[Len(q)], rest |-> SubSeq(q, 1, Len(q) - 1)]
Queue_get(q) == [item |-> Head(q), rest |-> Tail(q)]

\* line 114 (and 137): the fresh result of a task
NewRes(t) == [NoRes EXCEPT !.task = t.id]

\* dispatch on task.action, lines 115-172: the first statement of the branch
Branch(action) ==
    CASE action = "list_received_sms" -> "L116"
      [] action = "list_sent_sms"     -> "L121"
      [] action = "send_sms"          -> "L129"
      [] action = "receive_sms"       -> "L160"
      [] action = "delete_sms"        -> "L164"
      [] action = "stop"              -> "L169"

\* the statements of the worker that call b_get_sms_list, b_delete_sms, b_send_sms
CallLabels == {"L116", "L121", "L129", "L132", "L138", "L145", "L153", "L164"}

\* line 148: the index resolved from the final listing
ResolvedIndex_last(msgs) == msgs[Len(msgs)].Index
ResolvedIndex(msgs) == msgs[1].Index

\* lines 147-155: what follows the last poll
AfterPoll_nodelete(msgs) == "L157"
AfterPoll_always(msgs) == "L153"
AfterPoll(msgs) == IF Len(msgs) > 0 THEN "L153" ELSE "L157"

\* line 143: for i in range(0,5) ends after the 5th listing, whatever the
\* listings held
PollsDone_onfirst(n, msgs) == n >= Polls \/ Len(msgs) > 0
PollsDone(n, msgs) == n >= Polls

\* lines 131-132: after a delete of the drain loop, the next message or, after
\* the last, the next listing
AfterDrainDelete_send(n, msgs) == IF n < Len(msgs) THEN "L132" ELSE "L138"
AfterDrainDelete(n, msgs) == IF n < Len(msgs) THEN "L132" ELSE "L129"

\* line 130-134: what follows a listing of the drain loop
AfterDrainList_skip(msgs) == "L138"
AfterDrainList(msgs) == IF Len(msgs) > 0 THEN "L132" ELSE "L138"

\* a request record; a session GET and a POST alternate, so two requests in a
\* row never give the same record
Request(t, kind, arg) == [task |-> t, kind |-> kind, arg |-> arg]

\* the program after construction
InitProgram ==
    /\ task_queue = <<>>
    /\ result_queue = <<>>
    /\ cpc = [c \in Callers |-> "idle"]
    /\ ccall = [c \in Callers |-> NoTask]
    /\ cret = [c \in Callers |-> NoRet]
    /\ ntasks = 0
    /\ wpc = "L108"
    /\ wstage = "session"
    /\ task = NoTask
    /\ res = NoRes
    /\ messages = <<>>
    /\ i = 0
    /\ k = 0
    /\ outbox = <<>>
    /\ pending = {}
    /\ req = NoReq
    /\ open = {}
    /\ stopSeen = FALSE
    /\ dels = <<>>
    /\ own = 0
    /\ clean = FALSE
    /\ ppc = "L256"
    /\ pstage = "session"
    /\ pmessages = <<>>
    /\ pk = 0
    /\ plog = <<>>
    /\ pfwd = "-"
    /\ forwarded = {}
    /\ hpc = [h \in Handlers |-> "idle"]
    /\ hstage = [h \in Handlers |-> "session"]
    /\ nsends = 0
    /\ oimpl = "-"
    /\ okind = "-"
    /\ oarg = NoArg
    /\ opc = "idle"
    /\ osession = NoSession
    /\ olog = <<>>
    /\ nops = 0
    /\ nissued = 0
    /\ oresp = <<>>
    /\ oresult = <<>>
    /\ obody = <<>>
    /\ oout = "-"

\* the program after construction, with a modem that holds no message
Init ==
    /\ InitProgram
    /\ inbox = <<>>
    /\ nextIndex = 1
    /\ narrived = 0

\* ----- lib_usb_modem.py: the callers (lines 302-342) ----------------------

NewTask(c, action, index) ==
    [id |-> ntasks + 1, caller |-> c, action |-> action, index |-> index,
     numbers |-> IF action = "send_sms" THEN <<"0722060322">> ELSE <<>>,
     text |-> IF action = "send_sms" THEN Hello ELSE <<>>]

\* what the caller makes of the result it took from the result queue
\* (task.messages at 306/313, task.index at 322, nothing at 329/336)
Returned(t, r) ==
    CASE t.action \in {"list_received_sms", "list_sent_sms"} ->
            IF r.has_messages
            THEN [task |-> t.id, from |-> r.task, kind |-> "messages",
                  messages |-> r.messages, index |-> 0]
            ELSE [task |-> t.id, from |-> r.task, kind |-> "AttributeError",
                  messages |-> <<>>, index |-> 0]
      [] t.action = "send_sms" ->
            IF r.has_index
            THEN [task |-> t.id, from |-> r.task, kind |-> "index",
                  messages |-> <<>>, index |-> r.index]
            ELSE [task |-> t.id, from |-> r.task, kind |-> "AttributeError",
                  messages |-> <<>>, index |-> 0]
      [] OTHER ->
            [task |-> t.id, from |-> r.task, kind |-> "None",
             messages |-> <<>>, index |-> 0]

\* list_received_sms, list_sent_sms, send_sms, receive_sms, delete_sms up to
\* the blocking result_queue.get()
c_put(c, action, index) ==
    /\ cpc[c] = "idle"
    /\ ntasks < MaxTasks
    /\ action # "stop"
    /\ ntasks' = ntasks + 1
    /\ task_queue' = Append(task_queue, NewTask(c, action, index))
    /\ ccall' = [ccall EXCEPT ![c] = NewTask(c, action, index)]
    /\ cret' = [cret EXCEPT ![c] = NoRet]
    /\ cpc' = [cpc EXCEPT ![c] = "wait"]
    /\ UNCHANGED <<result_queue, wpc, wstage, task, res, messages, i, k,
                   req, open, stopSeen, dels, own, clean, modemvars, drvvars, protovars>>

c_list_received_sms(c) == c_put(c, "list_received_sms", 0)
c_list_sent_sms(c) == c_put(c, "list_sent_sms", 0)
c_send_sms(c) == c_put(c, "send_sms", 0)
c_receive_sms(c) == c_put(c, "receive_sms", 1)
c_delete_sms(c) == \E index \in 1..MaxIndex : c_put(c, "delete_sms", index)

\* stop, lines 340-342: puts the task and returns without reading a result
c_stop(c) ==
    /\ cpc[c] = "idle"
    /\ ntasks < MaxTasks
    /\ ntasks' = ntasks + 1
    /\ task_queue' = Append(task_queue, NewTask(c, "stop", 0))
    /\ UNCHANGED <<result_queue, cpc, ccall, cret, wpc, wstage, task, res,
                   messages, i, k, req, open, stopSeen, dels, own, clean,
                   modemvars, drvvars, protovars>>

\* task = self.result_queue.get() and the return statement of the call
c_return(c) ==
    /\ cpc[c] = "wait"
    /\ result_queue # <<>>
    /\ result_queue' = Tail(result_queue)
    /\ cret' = [cret EXCEPT ![c] = Returned(ccall[c], Head(result_queue))]
    /\ cpc' = [cpc EXCEPT ![c] = "idle"]
    /\ ccall' = [ccall EXCEPT ![c] = NoTask]
    /\ UNCHANGED <<task_queue, ntasks, wpc, wstage, task, res, messages,
                   i, k, req, open, stopSeen, dels, own, clean, modemvars, drvvars, protovars>>

\* ----- lib_usb_modem.py: background_worker (lines 104-173) ----------------

wlocals == <<task, res, messages, i, k>>
callervars == <<cpc, ccall, cret, ntasks>>

\* an exception leaves background_worker: nothing catches it, the process ends
w_raise ==
    /\ wpc' = "dead"
    /\ UNCHANGED <<task_queue, result_queue, callervars, wstage, wlocals,
                   open, stopSeen, dels, own, clean, modemvars, drvvars, protovars>>

\* line 108: r = self.session.get(BASE_URL + COOKIE_URL)
w_cookie ==
    /\ wpc = "L108"
    /\ req' = Request(0, "cookie", 0)
    /\ \/ /\ wpc' = "L112"
          /\ UNCHANGED <<task_queue, result_queue, callervars, wstage, wlocals,
                         open, stopSeen, dels, own, clean, modemvars, drvvars, protovars>>
       \/ w_raise

\* lines 112-115: task = task_queue.get(); res = Task(action='result'); dispatch
w_get_any ==
    /\ wpc \notin {"L108", "dead", "stopped"}
    /\ task_queue # <<>>
    /\ task' = Queue_get(task_queue).item
    /\ task_queue' = Queue_get(task_queue).rest
    /\ res' = NewRes(task')
    /\ wpc' = Branch(task'.action)
    /\ wstage' = "session"
    /\ open' = open \cup {task'.id}
    /\ stopSeen' = (stopSeen \/ task'.action = "stop")
    /\ dels' = <<>>
    /\ own' = 0
    /\ clean' = FALSE
    /\ UNCHANGED <<result_queue, callervars, messages, i, k, req,
                   modemvars, drvvars, protovars>>
w_get ==
    /\ wpc = "L112"
    /\ task_queue # <<>>
    /\ task' = Queue_get(task_queue).item
    /\ task_queue' = Queue_get(task_queue).rest
    /\ res' = NewRes(task')
    /\ wpc' = Branch(task'.action)
    /\ wstage' = "session"
    /\ open' = open \cup {task'.id}
    /\ stopSeen' = (stopSeen \/ task'.action = "stop")
    /\ dels' = <<>>
    /\ own' = 0
    /\ clean' = FALSE
    /\ UNCHANGED <<result_queue, callervars, messages, i, k, req,
                   modemvars, drvvars, protovars>>

\* b_get_session, lines 176-184: the GET that opens every b_* call
w_session ==
    /\ wpc \in CallLabels
    /\ wstage = "session"
    /\ req' = Request(task.id, "session", 0)
    /\ \/ /\ wstage' = "post"
          /\ UNCHANGED <<task_queue, result_queue, callervars, wpc, wlocals,
                         open, stopSeen, dels, own, clean, modemvars, drvvars, protovars>>
       \/ w_raise

\* self.result_queue.put(res) and back to the head of the loop
PutResult(r) ==
    /\ result_queue' = Append(result_queue, r)
    /\ open' = open \ {task.id}

\* lines 116-118 and 121-123: the POST of the listing, then the result
w_list(label, box) ==
    /\ wpc = label
    /\ wstage = "post"
    /\ req' = Request(task.id, "list", 0)
    /\ \/ /\ messages' = b_get_sms_list(box)
          /\ res' = [res EXCEPT !.has_messages = TRUE, !.messages = messages']
          /\ PutResult(res')
          /\ wpc' = "L112"
          /\ UNCHANGED <<task_queue, callervars, wstage, task, i, k, stopSeen,
                         dels, own, clean, modemvars, drvvars, protovars>>
       \/ w_raise

w_list_received_sms == w_list("L116", inbox)
w_list_sent_sms == w_list("L121", outbox)

\* the modem's answer to the POST of b_delete_sms (lines 261-263): the message
\* is deleted, or an error response leaves it where it is; the answer is ignored
ModemDeleteAnswer(index) ==
    \/ /\ inbox' = ModemDelete(inbox, index)
       /\ outbox' = ModemDelete(outbox, index)
    \/ UNCHANGED <<inbox, outbox>>

\* line 129-134: a listing of the drain loop
w_drain_list ==
    /\ wpc = "L129"
    /\ wstage = "post"
    /\ req' = Request(task.id, "list", 0)
    /\ \/ /\ messages' = b_get_sms_list(outbox)
          /\ wpc' = AfterDrainList(messages')
          /\ wstage' = "session"
          /\ k' = 1
          \* line 137: res.index = -1, once the loop is left
          /\ res' = IF Len(messages') > 0 THEN res
                    ELSE [res EXCEPT !.has_index = TRUE, !.index = -1]
          /\ clean' = (pending = {})
          /\ UNCHANGED <<task_queue, result_queue, callervars, task, i, open,
                         stopSeen, dels, own, modemvars, drvvars, protovars>>
       \/ w_raise

\* line 131-132: self.b_delete_sms(message.Index) for the next message
w_drain_delete ==
    /\ wpc = "L132"
    /\ wstage = "post"
    /\ req' = Request(task.id, "delete", messages[k].Index)
    /\ \/ /\ ModemDeleteAnswer(messages[k].Index)
          /\ k' = k + 1
          /\ wpc' = AfterDrainDelete(k, messages)
          /\ wstage' = "session"
          /\ UNCHANGED <<task_queue, result_queue, callervars, task, res,
                         messages, i, open, stopSeen, dels, own, clean,
                         pending, nextIndex, narrived, drvvars, protovars>>
       \/ w_raise

\* line 138: self.b_send_sms(numbers=task.numbers, text=task.text)
w_send ==
    /\ wpc = "L138"
    /\ wstage = "post"
    /\ req' = Request(task.id, "send", 0)
    /\ \/ /\ pending' = pending \cup
                  {StagedMessage(nextIndex, task.numbers, task.text)}
          /\ nextIndex' = nextIndex + 1
          /\ own' = nextIndex
          /\ i' = 0
          /\ wpc' = "L145"
          /\ wstage' = "session"
          /\ UNCHANGED <<task_queue, result_queue, callervars, task, res,
                         messages, k, open, stopSeen, dels, clean,
                         inbox, outbox, narrived, drvvars, protovars>>
       \/ w_raise

\* lines 143-155 up to the delete: one sleep and listing of the poll loop; after
\* the last one the listing decides res.index
w_poll ==
    /\ wpc = "L145"
    /\ wstage = "post"
    /\ req' = Request(task.id, "list", 0)
    /\ \/ /\ messages' = b_get_sms_list(outbox)
          /\ i' = i + 1
          /\ wstage' = "session"
          /\ IF ~PollsDone(i', messages')
             THEN /\ wpc' = "L145"
                  /\ res' = res
             ELSE /\ wpc' = AfterPoll(messages')
                  /\ res' = IF Len(messages') > 0
                            THEN [res EXCEPT !.index = ResolvedIndex(messages')]
                            ELSE res
          /\ UNCHANGED <<task_queue, result_queue, callervars, task, k, open,
                         stopSeen, dels, own, clean, modemvars, drvvars, protovars>>
       \/ w_raise

\* line 153: self.b_delete_sms(res.index)
w_final_delete ==
    /\ wpc = "L153"
    /\ wstage = "post"
    /\ req' = Request(task.id, "delete", res.index)
    /\ \/ /\ ModemDeleteAnswer(res.index)
          /\ dels' = Append(dels, res.index)
          /\ wpc' = "L157"
          /\ UNCHANGED <<task_queue, result_queue, callervars, wstage, wlocals,
                         open, stopSeen, own, clean, pending, nextIndex, narrived,
                         drvvars, protovars>>
       \/ w_raise

\* line 157: self.result_queue.put(res) of the send branch
w_send_result ==
    /\ wpc = "L157"
    /\ PutResult(res)
    /\ wpc' = "L112"
    /\ UNCHANGED <<task_queue, callervars, wstage, wlocals, req, stopSeen,
                   dels, own, clean, modemvars, drvvars, protovars>>

\* line 160: the receive_sms branch only answers
w_receive_sms ==
    /\ wpc = "L160"
    /\ PutResult(res)
    /\ wpc' = "L112"
    /\ UNCHANGED <<task_queue, callervars, wstage, wlocals, req, stopSeen,
                   dels, own, clean, modemvars, drvvars, protovars>>

\* lines 163-165: the delete_sms branch
w_delete_sms ==
    /\ wpc = "L164"
    /\ wstage = "post"
    /\ req' = Request(task.id, "delete", task.index)
    /\ \/ /\ ModemDeleteAnswer(task.index)
          /\ PutResult(res)
          /\ wpc' = "L112"
          /\ UNCHANGED <<task_queue, callervars, wstage, wlocals, stopSeen,
                         dels, own, clean, pending, nextIndex, narrived, drvvars, protovars>>
       \/ w_raise

\* lines 168-170: the stop branch answers and returns from background_worker
StopTarget_loop == "L112"
StopTarget == "stopped"
w_stop ==
    /\ wpc = "L169"
    /\ PutResult(res)
    /\ wpc' = StopTarget
    /\ UNCHANGED <<task_queue, callervars, wstage, wlocals, req, stopSeen,
                   dels, own, clean, modemvars, drvvars, protovars>>

\* ----- the modem on its own --------------------------------------------------

\* a sent message becomes visible in the outbox, newest first
Materialize ==
    /\ \E m \in pending :
          /\ pending' = pending \ {m}
          /\ outbox' = <<m>> \o outbox
    /\ UNCHANGED <<libvars, drvvars, protovars, inbox, nextIndex, narrived>>

\* a plain SMS is received, at most limit of them in a run
Receive(limit) ==
    /\ narrived < limit
    /\ inbox' = <<[Index |-> nextIndex, Phone |-> "0701234567",
                   SmsType |-> "1", Content |-> Hi]>> \o inbox
    /\ nextIndex' = nextIndex + 1
    /\ narrived' = narrived + 1
    /\ UNCHANGED <<libvars, drvvars, protovars, outbox, pending>>

\* receptions while the library runs, and while the driver runs
Incoming == Receive(MaxReceived)
Arrive == Receive(MaxInbox)

\* ----- the library: callers, worker and modem ---------------------------------

Next ==
    \/ \E c \in Callers : c_list_received_sms(c)
    \/ \E c \in Callers : c_list_sent_sms(c)
    \/ \E c \in Callers : c_send_sms(c)
    \/ \E c \in Callers : c_receive_sms(c)
    \/ \E c \in Callers : c_delete_sms(c)
    \/ \E c \in Callers : c_stop(c)
    \/ \E c \in Callers : c_return(c)
    \/ w_cookie
    \/ w_get
    \/ w_session
    \/ w_list_received_sms
    \/ w_list_sent_sms
    \/ w_drain_list
    \/ w_drain_delete
    \/ w_send
    \/ w_poll
    \/ w_final_delete
    \/ w_send_result
    \/ w_receive_sms
    \/ w_delete_sms
    \/ w_stop
    \/ Materialize
    \/ Incoming

Spec == Init /\ [][Next]_vars

\* ----- properties of the library ------------------------------------------------

\* the worker issues a modem request in this step
Requests == req' # req

\* C1: at most one task is dequeued and unanswered at any time, and every modem
\* request of the worker is issued for that one task, so the requests of two
\* tasks never interleave
C1_OneTaskAtTheModem ==
    /\ [](Cardinality(open) <= 1)
    /\ [][(Requests /\ req'.task # 0) => open = {req'.task}]_vars

\* two calls are outstanding while a modem request of the first is under way
C1_Witness ==
    /\ wpc \in CallLabels
    /\ wstage = "post"
    /\ open = {task.id}
    /\ task_queue # <<>>
    /\ \A c \in Callers : cpc[c] = "wait"

\* C2: a call that has returned has returned the result the worker produced for
\* its own task
C2_OwnResult ==
    \A c \in Callers : cret[c].task # 0 => cret[c].from = cret[c].task

\* C3: tasks are numbered in the order of their put; the worker dequeues them in
\* that order and the task of its modem requests never goes back to an earlier one
C3_Fifo ==
    /\ [][task'.id >= task.id]_vars
    /\ [][req'.task >= req.task]_vars

\* the worker sends requests for the second task while both have been put by
\* different callers
C3_Witness ==
    /\ req.task = 2
    /\ task.id = 2
    /\ \E c \in Callers : ccall[c].id = 2 /\ cpc[c] = "wait"

C5_Sentinel ==
    /\ []((wpc = "L157" /\ messages = <<>>) =>
             (res.has_index /\ res.index = -1 /\ dels = <<>>))
    /\ [][(wpc = "L157" /\ messages = <<>> /\ wpc' # wpc) =>
             /\ wpc' = "L112"
             /\ req' = req
             /\ result_queue' = Append(result_queue,
                   [task |-> task.id, has_messages |-> FALSE,
                    messages |-> <<>>, has_index |-> TRUE, index |-> -1])]_vars

\* a caller got -1 from its own send
C5_Witness ==
    \E c \in Callers :
        /\ cret[c].kind = "index"
        /\ cret[c].index = -1
        /\ cret[c].from = cret[c].task

\* C6: with more than one entry in the final listing the result is the index of
\* the first, one delete has been issued after the send, for the first, and the
\* other entries are still in the outbox
C6_FirstOfSeveral ==
    (wpc = "L157" /\ Len(messages) > 1) =>
        /\ res.has_index
        /\ res.index = messages[1].Index
        /\ dels = <<messages[1].Index>>
        /\ \A j \in 2..Len(messages) :
               \E n \in 1..Len(outbox) : outbox[n] = messages[j]

C6_Witness ==
    /\ wpc = "L157"
    /\ Len(messages) > 1
    /\ dels # <<>>

\* C7: no error ends the worker
C7_WorkerSurvivesErrors == wpc # "dead"

\* C8: the stop branch puts a result and ends the loop; once a stop has been
\* dequeued the worker dequeues no task and issues no modem request
C8_StopEndsWorker ==
    /\ [][(wpc = "L169" /\ wpc' # wpc) =>
             /\ wpc' = "stopped"
             /\ result_queue' = Append(result_queue, NewRes(task))]_vars
    /\ [][stopSeen => (task' = task /\ req' = req)]_vars
    /\ [](wpc = "stopped" => stopSeen)

\* the worker has stopped and a task put behind the stop stays in the queue
C8_Witness ==
    /\ wpc = "stopped"
    /\ task.action = "stop"
    /\ task_queue # <<>>

C19_OwnMessage ==
    (wpc = "L157" /\ res.index # -1) => res.index = own

\* C19, amended: it is, when no message of an earlier send was still waiting to
\* be stored in the outbox at the last listing of the drain loop
C19_OwnMessageWhenClean ==
    (wpc = "L157" /\ res.index # -1 /\ clean) => res.index = own

\* a second send resolved its own message
C19_Witness ==
    /\ wpc = "L157"
    /\ clean
    /\ task.id = 2
    /\ nextIndex = 3
    /\ res.index = own

\* the worker has sent the delete request of this delete_sms task to the modem
DeleteIssued(t) ==
    \/ task.id > t.id
    \/ task.id = t.id /\ req = Request(t.id, "delete", t.index)

\* C22: a delete_sms call returns only after the worker has issued the delete
\* request for its index
C22_DeleteIssuedBeforeReturn ==
    [][\A c \in Callers :
          (cpc[c] = "wait" /\ cpc'[c] = "idle"
           /\ ccall[c].action = "delete_sms") => DeleteIssued(ccall[c])]_vars

\* the callers blocked in result_queue.get()
Blocked == {c \in Callers : cpc[c] = "wait"}

\* C23: there are never more results on the result queue than callers blocked
\* in a call, and none when no caller is blocked and the worker is idle or
\* stopped
C23_Balanced ==
    /\ Len(result_queue) <= Cardinality(Blocked)
    /\ (Blocked = {} /\ wpc \in {"L112", "stopped"}) => result_queue = <<>>

\* C12: the worker never ends in the POST of a delete: a failing b_delete_sms
\* does not raise into the drain loop, the final delete or the delete_sms branch
C12_DeleteNeverRaises == ~(wpc = "dead" /\ req.kind = "delete")

\* ----- playsms_hilink_driver.py: poller thread and HTTP handler threads ------

\* get_sms_list lines 222-224: the four attributes, as they are
d_message(m) ==
    [Index |-> m.Index, Phone |-> m.Phone, SmsType |-> m.SmsType,
     Content |-> m.Content]

\* get_sms_list, lines 208-226, the parsing: the plain SMS of the response, in
\* the order of the response
d_parse_sms_list(data) ==
    IF data.has_key /\ ~data.is_none
    THEN LET plain == SelectSeq(MessageList(data), LAMBDA m : m.SmsType = "1")
         IN  [n \in 1..Len(plain) |-> d_message(plain[n])]
    ELSE <<>>

\* get_sms_list on the inbox of the modem
get_sms_list(box) == d_parse_sms_list(xmltodict(ModemList(box)))

\* the statements of poll_receive_sms that call get_sms_list and delete_sms
PollCallLabels == {"L256", "L260"}

\* line 260: the index handed to delete_sms for the message of this iteration
DeleteTarget_first(msgs, n) == msgs[1].Index
DeleteTarget(msgs, n) == msgs[n].Index

\* line 257: the for loop goes on with the next message or ends
AfterDelete(msgs, n) == IF n < Len(msgs) THEN "L259" ELSE "L261"

\* an exception leaves poll_receive_sms: the thread ends
p_raise ==
    /\ ppc' = "dead"
    /\ UNCHANGED <<libvars, modemvars, protovars, pstage, pmessages, pk, plog, pfwd, forwarded,
                   hpc, hstage, nsends>>

\* get_session, lines 173-181, called by get_sms_list and delete_sms
p_session ==
    /\ ppc \in PollCallLabels
    /\ pstage = "session"
    /\ \/ /\ pstage' = "post"
          /\ UNCHANGED <<libvars, modemvars, protovars, ppc, pmessages, pk, plog, pfwd, forwarded,
                         hpc, hstage, nsends>>
       \/ p_raise

\* line 256: messages = self.get_sms_list()
p_list ==
    /\ ppc = "L256"
    /\ pstage = "post"
    /\ \/ /\ pmessages' = get_sms_list(inbox)
          /\ pk' = 1
          /\ plog' = <<>>
          /\ pfwd' = "-"
          /\ ppc' = IF Len(pmessages') > 0 THEN "L259" ELSE "L261"
          /\ pstage' = "session"
          /\ UNCHANGED <<libvars, modemvars, protovars, forwarded, hpc, hstage,
                         nsends>>
       \/ p_raise

\* lines 258-259: playsms.insert_sms_into_playsms(...), lines 134-148: the
\* platform takes the message ("ok") or answers with an error status ("failed"),
\* and the answer is ignored; a request that cannot be made raises ("raised")
p_forward ==
    /\ ppc = "L259"
    /\ plog' = Append(plog, <<"forward", pmessages[pk].Index>>)
    /\ forwarded' = forwarded \cup {pmessages[pk].Index}
    /\ \/ /\ pfwd' \in {"ok", "failed"}
          /\ ppc' = "L260"
          /\ pstage' = "session"
          /\ UNCHANGED <<libvars, modemvars, protovars, pmessages, pk, hpc, hstage, nsends>>
       \/ /\ pfwd' = "raised"
          /\ ppc' = "dead"
          /\ UNCHANGED <<libvars, modemvars, protovars, pstage, pmessages, pk,
                         hpc, hstage, nsends>>

\* line 260: self.delete_sms(message.Index), the POST
p_delete ==
    /\ ppc = "L260"
    /\ pstage = "post"
    /\ \/ /\ ModemDeleteAnswer(DeleteTarget(pmessages, pk))
          /\ plog' = Append(plog, <<"delete", DeleteTarget(pmessages, pk)>>)
          /\ pk' = pk + 1
          /\ pfwd' = "-"
          /\ ppc' = AfterDelete(pmessages, pk)
          /\ pstage' = "session"
          /\ UNCHANGED <<libvars, protovars, pending, nextIndex, narrived, pmessages,
                         forwarded, hpc, hstage, nsends>>
       \/ p_raise

\* line 261: time.sleep(10), then the next cycle
p_sleep ==
    /\ ppc = "L261"
    /\ ppc' = "L256"
    /\ UNCHANGED <<libvars, modemvars, protovars, pstage, pmessages, pk, plog, pfwd, forwarded,
                   hpc, hstage, nsends>>

\* do_GET, lines 338-347: a handler thread of ThreadingServer enters send_sms
h_do_GET(h) ==
    /\ hpc[h] = "idle"
    /\ nsends < MaxSends
    /\ nsends' = nsends + 1
    /\ hpc' = [hpc EXCEPT ![h] = "L266"]
    /\ hstage' = [hstage EXCEPT ![h] = "session"]
    /\ UNCHANGED <<libvars, modemvars, protovars, ppc, pstage, pmessages, pk, plog, pfwd,
                   forwarded>>

\* send_sms line 266: get_session; an exception ends the request
h_session(h) ==
    /\ hpc[h] = "L266"
    /\ hstage[h] = "session"
    /\ \/ /\ hstage' = [hstage EXCEPT ![h] = "post"]
          /\ hpc' = hpc
       \/ /\ hpc' = [hpc EXCEPT ![h] = "idle"]
          /\ hstage' = hstage
    /\ UNCHANGED <<libvars, modemvars, protovars, ppc, pstage, pmessages, pk, plog, pfwd, forwarded,
                   nsends>>

\* send_sms line 291 and do_GET line 348: the POST of the send, then the answer
h_post(h) ==
    /\ hpc[h] = "L266"
    /\ hstage[h] = "post"
    /\ \/ /\ pending' = pending \cup
                  {StagedMessage(nextIndex, <<"0722060322">>, Hello)}
          /\ nextIndex' = nextIndex + 1
       \/ UNCHANGED <<pending, nextIndex>>
    /\ hpc' = [hpc EXCEPT ![h] = "idle"]
    /\ hstage' = [hstage EXCEPT ![h] = "session"]
    /\ UNCHANGED <<libvars, protovars, inbox, outbox, narrived, ppc, pstage, pmessages,
                   pk, plog, pfwd, forwarded, nsends>>

NextDriver ==
    \/ p_session
    \/ p_list
    \/ p_forward
    \/ p_delete
    \/ p_sleep
    \/ \E h \in Handlers : h_do_GET(h)
    \/ \E h \in Handlers : h_session(h)
    \/ \E h \in Handlers : h_post(h)
    \/ Materialize
    \/ Arrive

SpecDriver == Init /\ [][NextDriver]_vars

\* ----- properties of the driver ---------------------------------------------------

\* a thread has got its session and not yet sent the POST that uses it
PollerInFlight == ppc \in PollCallLabels /\ pstage = "post"
SendInFlight(h) == hpc[h] = "L266" /\ hstage[h] = "post"

\* C9: the poller is never between the session GET and the POST of a list or
\* delete while a send of the gateway is between its session GET and its POST
C9_PollerSerializedWithSends ==
    ~(PollerInFlight /\ \E h \in Handlers : SendInFlight(h))

\* the forwards and deletes of a cycle over the listing msgs, in the order of
\* line 257-260
CycleOps(msgs) ==
    [n \in 1..(2 * Len(msgs)) |->
        IF n % 2 = 1 THEN <<"forward", msgs[(n + 1) \div 2].Index>>
                     ELSE <<"delete", msgs[n \div 2].Index>>]

\* C10: the forwards and deletes of a cycle are a prefix of forward m1, delete
\* m1, forward m2, delete m2, ... over the cycle's listing, and all of it once
\* the cycle has reached its sleep
C10_ForwardThenDelete ==
    /\ Len(plog) <= 2 * Len(pmessages)
    /\ plog = SubSeq(CycleOps(pmessages), 1, Len(plog))
    /\ ppc = "L261" => plog = CycleOps(pmessages)

\* a cycle over two messages has forwarded and deleted both
C10_Witness ==
    /\ ppc = "L261"
    /\ Len(pmessages) = 2
    /\ Len(plog) = 4

\* C11: after a forward call that failed, by an error answer or by raising, the
\* poller is at the delete of that message: the thread has not ended and the
\* delete is not skipped
C11_DeleteAfterFailedForward ==
    pfwd \in {"failed", "raised"} => ppc = "L260"


\* ----- the protocol operations of both files ----------------------------------

MaxOps == 2
MaxListed == 2

Impls == {"lib", "driver"}
Texts == {Hello, <<>>, <<97, 38, 98>>, <<229>>}
NumberLists == {<<"0722060322">>, <<"0722060322", "0701234567">>}

\* the answers of /api/webserver/SesTokInfo: a well-formed response with both
\* fields, with one of them missing, one without a response element, and text
\* that is not XML
SessionAnswers(n) ==
    {[xml |-> TRUE, response |-> TRUE,
      SesInfo |-> <<"SesInfo", n>>, TokInfo |-> <<"TokInfo", n>>],
     [xml |-> TRUE, response |-> TRUE,
      SesInfo |-> <<>>, TokInfo |-> <<"TokInfo", n>>],
     [xml |-> TRUE, response |-> TRUE,
      SesInfo |-> <<"SesInfo", n>>, TokInfo |-> <<>>],
     [xml |-> TRUE, response |-> FALSE, SesInfo |-> <<>>, TokInfo |-> <<>>],
     [xml |-> FALSE, response |-> FALSE, SesInfo |-> <<>>, TokInfo |-> <<>>]}

\* b_get_session lines 180-181: xmltodict.parse raises on text that is not XML,
\* and .get('response', None) gives None, on which line 182 raises
b_get_session_raises(answer) == ~answer.xml \/ ~answer.response

\* b_get_session lines 182-184: dict.get gives None (here <<>>) for a field the
\* response does not have
b_get_session(answer) ==
    [cookie |-> answer.SesInfo, token |-> answer.TokInfo]

\* get_session of the driver, lines 177-181: the same statements
get_session_raises(answer) == ~answer.xml \/ ~answer.response

get_session(answer) ==
    [cookie |-> answer.SesInfo, token |-> answer.TokInfo]

\* the headers dict of the POST: 'Cookie': session,
\* '__RequestVerificationToken': token
Headers_swapped(session) ==
    [cookie |-> session.token, token |-> session.cookie]
Headers(session) ==
    [cookie |-> session.cookie, token |-> session.token]

\* the pieces of post_data: markup, one byte of text, a str given whole, and
\* the decimal digits of a number
Open(tag) == [t |-> "open", s |-> tag, n |-> 0]
Close(tag) == [t |-> "close", s |-> tag, n |-> 0]
Byte(b) == [t |-> "byte", s |-> "", n |-> b]
Str(str) == [t |-> "str", s |-> str, n |-> 0]
Num(num) == [t |-> "num", s |-> "", n |-> num]

\* for number in numbers: post_data += b"    <Phone>%s</Phone>\n"
RECURSIVE Phones(_)
Phones(numbers) ==
    IF numbers = <<>> THEN <<>>
    ELSE <<Open("Phone"), Str(Head(numbers)), Close("Phone")>>
             \o Phones(Tail(numbers))

\* b_send_sms lines 277-291: the text goes in as text.encode(), unescaped
b_send_sms(numbers, text) ==
    <<Open("request"), Open("Index"), Num(-1), Close("Index"), Open("Phones")>>
    \o Phones(numbers)
    \o <<Close("Phones"), Open("Sca"), Close("Sca"), Open("Content")>>
    \o [n \in 1..Len(Utf8Encode(text)) |-> Byte(Utf8Encode(text)[n])]
    \o <<Close("Content"), Open("Length"), Num(Len(text)), Close("Length"),
         Open("Reserved"), Num(1), Close("Reserved"),
         Open("Date"), Str("now_str"), Close("Date"), Close("request")>>

\* send_sms of the driver, lines 275-289: the same statements
send_sms(numbers, text) ==
    <<Open("request"), Open("Index"), Num(-1), Close("Index"), Open("Phones")>>
    \o Phones(numbers)
    \o <<Close("Phones"), Open("Sca"), Close("Sca"), Open("Content")>>
    \o [n \in 1..Len(Utf8Encode(text)) |-> Byte(Utf8Encode(text)[n])]
    \o <<Close("Content"), Open("Length"), Num(Len(text)), Close("Length"),
         Open("Reserved"), Num(1), Close("Reserved"),
         Open("Date"), Str("now_str"), Close("Date"), Close("request")>>

\* the messages an sms-list answer can hold: plain SMS with text, with UTF-8
\* bytes read as latin1, with no content, and a message of another type
MessageKinds ==
    {[SmsType |-> "1", Content |-> Hi],
     [SmsType |-> "1", Content |-> <<195, 165>>],
     [SmsType |-> "1", Content |-> <<>>],
     [SmsType |-> "7", Content |-> Hi]}

ListAnswers ==
    UNION {{[n \in 1..len |->
               [Index |-> n, Phone |-> "0701234567",
                SmsType |-> f[n].SmsType, Content |-> f[n].Content]] :
            f \in [1..len -> MessageKinds]} : len \in 0..MaxListed}

\* an answer whose response element has no Messages element
NoMessages ==
    [has_key |-> FALSE, is_none |-> FALSE, is_list |-> FALSE,
     one |-> NoMessage, many |-> <<>>]

\* a call of one of the six methods
o_call ==
    /\ opc = "idle"
    /\ nops < MaxOps
    /\ nops' = nops + 1
    /\ oimpl' \in Impls
    /\ \/ /\ okind' = "list"
          /\ \E box \in 1..2 : oarg' = [NoArg EXCEPT !.box = box]
       \/ /\ okind' = "delete"
          /\ \E index \in 1..MaxIndex : oarg' = [NoArg EXCEPT !.index = index]
       \/ /\ okind' = "send"
          /\ \E numbers \in NumberLists, text \in Texts :
                oarg' = [NoArg EXCEPT !.numbers = numbers, !.text = text]
    /\ opc' = "session"
    /\ oresp' = <<>>
    /\ oresult' = <<>>
    /\ obody' = <<>>
    /\ oout' = "-"
    /\ UNCHANGED <<libvars, modemvars, drvvars, osession, olog, nissued>>

\* session, token = self.b_get_session() / self.get_session()
o_get_session ==
    /\ opc = "session"
    /\ nissued' = nissued + 1
    /\ \E answer \in SessionAnswers(nissued') :
          LET raises == IF oimpl = "lib" THEN b_get_session_raises(answer)
                        ELSE get_session_raises(answer)
              pair == IF oimpl = "lib" THEN b_get_session(answer)
                      ELSE get_session(answer)
          IN  /\ olog' = Append(olog, [op |-> nops, verb |-> "GET",
                                       cookie |-> answer.SesInfo,
                                       token |-> answer.TokInfo,
                                       raised |-> raises])
              /\ IF raises
                 THEN /\ opc' = "idle"
                      /\ oout' = "raised"
                      /\ UNCHANGED osession
                 ELSE /\ opc' = "post"
                      /\ osession' = pair
                      /\ UNCHANGED oout
    /\ UNCHANGED <<libvars, modemvars, drvvars, oimpl, okind, oarg, nops,
                   oresp, oresult, obody>>

\* self.session.post(url=api_url, data=post_data, headers=headers)
Posted ==
    /\ opc = "post"
    /\ opc' = "idle"
    /\ olog' = Append(olog, [op |-> nops, verb |-> "POST",
                             cookie |-> Headers(osession).cookie,
                             token |-> Headers(osession).token,
                             raised |-> FALSE])
    /\ UNCHANGED <<libvars, modemvars, drvvars, oimpl, okind, oarg, osession,
                   nops, nissued>>

\* the POST of a listing and the parsing of its answer
o_list ==
    /\ okind = "list"
    /\ Posted
    /\ \/ \E msgs \in ListAnswers, has_key \in BOOLEAN :
          LET data == IF has_key THEN xmltodict(msgs) ELSE NoMessages
          IN
            /\ ~has_key => msgs = <<>>
            /\ oresp' = msgs
            /\ IF oimpl = "lib" /\ b_parse_raises(data)
               THEN oresult' = <<>> /\ oout' = "raised"
               ELSE /\ oresult' = IF oimpl = "lib" THEN b_parse_sms_list(data)
                                  ELSE d_parse_sms_list(data)
                    /\ oout' = "ok"
       \/ /\ oout' = "raised"
          /\ UNCHANGED <<oresp, oresult>>
    /\ UNCHANGED obody

\* the POST of a delete
o_delete ==
    /\ okind = "delete"
    /\ Posted
    /\ oout' \in {"ok", "raised"}
    /\ UNCHANGED <<oresp, oresult, obody>>

\* the building of post_data and the POST of a send
o_send ==
    /\ okind = "send"
    /\ Posted
    /\ obody' = IF oimpl = "lib" THEN b_send_sms(oarg.numbers, oarg.text)
                ELSE send_sms(oarg.numbers, oarg.text)
    /\ oout' \in {"ok", "raised"}
    /\ UNCHANGED <<oresp, oresult>>

NextProto ==
    \/ o_call
    \/ o_get_session
    \/ o_list
    \/ o_delete
    \/ o_send

SpecProto == Init /\ [][NextProto]_vars

\* ----- properties of the protocol operations ----------------------------------

\* the requests of operation n, in the order they were made
RequestsOf(n) == SelectSeq(olog, LAMBDA e : e.op = n)

\* C13: every operation makes one session GET and then, unless the GET failed,
\* one POST carrying what that GET returned; no cookie and no token is carried
\* by two POSTs; and no operation makes a second attempt
C13_OneGetOnePost ==
    /\ \A n \in 1..nops :
          LET rs == RequestsOf(n)
          IN  /\ Len(rs) <= 2
              /\ Len(rs) >= 1 => rs[1].verb = "GET"
              /\ Len(rs) = 2 =>
                    /\ rs[2].verb = "POST"
                    /\ ~rs[1].raised
                    /\ rs[2].cookie = rs[1].cookie
                    /\ rs[2].token = rs[1].token
              /\ (n < nops \/ opc = "idle") =>
                    /\ Len(rs) >= 1
                    /\ Len(rs) = 1 => rs[1].raised
    /\ \A a \in 1..Len(olog), b \in 1..Len(olog) :
          (a # b /\ olog[a].verb = "POST" /\ olog[b].verb = "POST") =>
             /\ olog[a].cookie # <<>> => olog[a].cookie # olog[b].cookie
             /\ olog[a].token # <<>> => olog[a].token # olog[b].token

\* two operations have run to their POST, each with a full pair
C13_Witness ==
    /\ nops = 2
    /\ opc = "idle"
    /\ Len(olog) = 4
    /\ \A a \in 1..4 : olog[a].cookie # <<>> /\ olog[a].token # <<>>

\* C14: the session step never hands an absent cookie or token to the
\* operation, and no POST carries one
C14_NoAbsentComponent ==
    /\ opc = "post" => (osession.cookie # <<>> /\ osession.token # <<>>)
    /\ \A a \in 1..Len(olog) :
          olog[a].verb = "POST" =>
             (olog[a].cookie # <<>> /\ olog[a].token # <<>>)

\* the plain SMS of the answer, in the order of the answer
PlainOf(msgs) == SelectSeq(msgs, LAMBDA m : m.SmsType = "1")

\* C15: a listing that returns gives one message for each plain SMS of the
\* answer, in the order of the answer, a message without content having one
\* space as its content
C15_PlainSubsequence ==
    (okind = "list" /\ opc = "idle" /\ oout = "ok") =>
       /\ Len(oresult) = Len(PlainOf(oresp))
       /\ \A n \in 1..Len(oresult) :
             /\ oresult[n].Index = PlainOf(oresp)[n].Index
             /\ oresult[n].Phone = PlainOf(oresp)[n].Phone
             /\ oresult[n].SmsType = "1"
             /\ PlainOf(oresp)[n].Content = <<>> => oresult[n].Content = Space

\* what an XML parser finds between the tags of the first element of a name
ElementOf(body, tag) ==
    LET a == CHOOSE p \in 1..Len(body) :
                /\ body[p] = Open(tag)
                /\ \A q \in 1..(p - 1) : body[q] # Open(tag)
        b == CHOOSE p \in (a + 1)..Len(body) :
                /\ body[p] = Close(tag)
                /\ \A q \in (a + 1)..(p - 1) : body[q] # Close(tag)
    IN  SubSeq(body, a + 1, b - 1)

\* bytes are character data unless one of them is & (38) or < (60)
IsCharacterData(items) ==
    \A n \in 1..Len(items) : items[n].t = "byte" /\ items[n].n \notin {38, 60}

\* the characters of the bytes, read as UTF-8
TextOf(items) == Utf8Decode([n \in 1..Len(items) |-> items[n].n])

\* C16: the body of a send has Index -1, the Phone elements of the numbers in
\* their order, the text as its Content, the number of characters of the text
\* as its Length, and Reserved 1
C16_SendBody ==
    (okind = "send" /\ obody # <<>>) =>
       /\ ElementOf(obody, "Index") = <<Num(-1)>>
       /\ ElementOf(obody, "Phones") =
             Phones(oarg.numbers)
       /\ IsCharacterData(ElementOf(obody, "Content"))
       /\ TextOf(ElementOf(obody, "Content")) = oarg.text
       /\ ElementOf(obody, "Length") = <<Num(Len(oarg.text))>>
       /\ ElementOf(obody, "Reserved") = <<Num(1)>>


\* ----- the inbox poller on its own, with every call succeeding --------------------

MaxPlain == 11
MaxOther == 10

\* an inbox of a messages of one kind, the newest, and b of the other; the
\* modem lists newest first
PreparedInbox(a, b, plainNewest) ==
    [n \in 1..(a + b) |->
        [Index |-> a + b + 1 - n, Phone |-> "0701234567",
         SmsType |-> IF (n <= a) = plainNewest THEN "1" ELSE "7",
         Content |-> Hi]]

PreparedInboxes ==
    {PreparedInbox(a, b, TRUE) : a \in 0..MaxPlain, b \in 0..MaxOther}
    \cup {PreparedInbox(a, b, FALSE) : a \in 0..MaxOther, b \in 0..MaxPlain}

InitPolling ==
    /\ InitProgram
    /\ inbox \in PreparedInboxes
    /\ nextIndex = Len(inbox) + 1
    /\ narrived = Len(inbox)

\* the steps of poll_receive_sms when the modem and the platform do as asked
s_session == p_session /\ ppc' # "dead"
s_list == p_list /\ ppc' # "dead"
s_forward == p_forward /\ pfwd' = "ok"
s_delete ==
    /\ p_delete
    /\ ppc' # "dead"
    /\ inbox' = ModemDelete(inbox, DeleteTarget(pmessages, pk))
s_sleep == p_sleep /\ ppc' # "dead"

NextPolling ==
    \/ s_session
    \/ s_list
    \/ s_forward
    \/ s_delete
    \/ s_sleep

\* the poller thread is scheduled again and again, and time.sleep returns
SpecPolling == InitPolling /\ [][NextPolling]_vars /\ WF_vars(NextPolling)

\* a plain SMS with this Index is in the inbox
PlainInInbox(x) ==
    \E n \in 1..Len(inbox) : inbox[n].Index = x /\ inbox[n].SmsType = "1"

\* the cycle has forwarded the message with this Index, then deleted it, and it
\* is gone from the inbox
ForwardedAndDeleted(x) ==
    /\ \E a \in 1..Len(plog), b \in 1..Len(plog) :
          a < b /\ plog[a] = <<"forward", x>> /\ plog[b] = <<"delete", x>>
    /\ \A n \in 1..Len(inbox) : inbox[n].Index # x

\* C20: every plain SMS in the inbox is in the end forwarded and deleted by some
\* cycle of the poller
C20_EveryPlainForwarded ==
    \A x \in 1..(MaxPlain + MaxOther) :
        PlainInInbox(x) ~> ForwardedAndDeleted(x)


\* C24: the poller never forwards a message it has forwarded before
C24_ForwardedOnce ==
    [][(ppc = "L259" /\ plog' # plog) =>
          pmessages[pk].Index \notin forwarded]_vars


\* ----- the library with a fair worker and a modem that answers every request -------

\* the steps of background_worker that make a request, when it is answered
a_cookie == w_cookie /\ wpc' # "dead"
a_session == w_session /\ wpc' # "dead"
a_list_received_sms == w_list_received_sms /\ wpc' # "dead"
a_list_sent_sms == w_list_sent_sms /\ wpc' # "dead"
a_drain_list == w_drain_list /\ wpc' # "dead"
a_drain_delete == w_drain_delete /\ wpc' # "dead"
a_send == w_send /\ wpc' # "dead"
a_poll == w_poll /\ wpc' # "dead"
a_final_delete == w_final_delete /\ wpc' # "dead"
a_delete_sms == w_delete_sms /\ wpc' # "dead"

\* a step of the worker process
WorkerStep ==
    \/ a_cookie
    \/ w_get
    \/ a_session
    \/ a_list_received_sms
    \/ a_list_sent_sms
    \/ a_drain_list
    \/ a_drain_delete
    \/ a_send
    \/ a_poll
    \/ a_final_delete
    \/ w_send_result
    \/ w_receive_sms
    \/ a_delete_sms
    \/ w_stop

NextAnswered ==
    \/ \E c \in Callers : c_list_received_sms(c)
    \/ \E c \in Callers : c_list_sent_sms(c)
    \/ \E c \in Callers : c_send_sms(c)
    \/ \E c \in Callers : c_receive_sms(c)
    \/ \E c \in Callers : c_delete_sms(c)
    \/ \E c \in Callers : c_stop(c)
    \/ \E c \in Callers : c_return(c)
    \/ WorkerStep
    \/ Materialize
    \/ Incoming

\* the worker process keeps running, and a caller blocked in result_queue.get()
\* is woken when there is a result
SpecAnswered ==
    /\ Init
    /\ [][NextAnswered]_vars
    /\ WF_vars(WorkerStep)
    /\ \A c \in Callers : WF_vars(c_return(c))

\* a stop was put on the task queue before the task of this caller's call
StopBefore(c) ==
    \/ task.action = "stop" /\ task.id < ccall[c].id
    \/ \E n \in 1..Len(task_queue) :
          task_queue[n].action = "stop" /\ task_queue[n].id < ccall[c].id

\* C21: a call of list_received_sms, list_sent_sms, send_sms or delete_sms that
\* was made before any stop returns in the end
C21_CallsReturn ==
    \A c \in Callers :
        (/\ cpc[c] = "wait"
         /\ ccall[c].action \in {"list_received_sms", "list_sent_sms",
                                 "send_sms", "delete_sms"}
         /\ ~StopBefore(c)) ~> (cpc[c] = "idle")

====
